---- MODULE Spec2Model ----
(***************************************************************************)
(* Model of the database module (db.js) of the notes application: the      *)
(* notes table, the CRUD operations, the bulk insert transaction and the   *)
(* sync cycle (syncWithBackend) with its two suspension points.            *)
(***************************************************************************)
EXTENDS Integers, Sequences, FiniteSets, TLC

\* ------------------------------------------------------------------ bounds
\* Largest rowid the table may hand out (capacity of the model).
MaxId == 2
\* Largest value of CURRENT_TIMESTAMP (seconds since the module was loaded).
MaxClock == 1
\* Longest syncedIds / failedIds list the remote puts in a response.
MaxList == 2

\* --------------------------------------------------------------- constants
\* SQL NULL in a DATETIME column (synced_at has no default).
NoTime == -1
\* SQL NULL / JS null in a TEXT column or argument.
NullText == "<null>"
\* JS undefined: an argument left out by the caller.
Undefined == "<undefined>"

Ids == 1..MaxId
\* The (title, content) arguments the calls are tried with: two texts that
\* differ in both fields, and a null title, which the table refuses.
ValidAddArgs == {<<"a", Undefined>>, <<"b", "x">>}
AddArgs == ValidAddArgs \cup {<<NullText, "x">>}
ValidUpdateArgs == {<<"a", "">>, <<"b", "x">>}
UpdateArgs == ValidUpdateArgs \cup {<<NullText, "x">>}
ValidBulkItems == {[title |-> "a", content |-> NullText], [title |-> "b", content |-> "x"]}
BulkItems == ValidBulkItems \cup {[title |-> NullText, content |-> "x"]}

VARIABLES
  notes,   \* the notes table: a function from the rowids present to rows
  seq,     \* sqlite_sequence of the AUTOINCREMENT key: largest rowid ever used
  now,     \* CURRENT_TIMESTAMP
  pc,      \* position of the syncWithBackend call in flight
  sent,    \* syncData of the request in flight
  last,    \* the call made last, and how it ended
  conn     \* the database connection and the process that holds it

vars == <<notes, seq, now, pc, sent, last, conn>>

\* ------------------------------------------------------------- statements
\* NewRow with DEFAULT CURRENT_TIMESTAMP on synced_at as well.
NewRowStamped(id, title, content, t) ==
  [id |-> id, title |-> title, content |-> content, created_at |-> t,
   updated_at |-> t, synced_at |-> t, sync_status |-> "pending"]

\* The row an INSERT INTO notes (title, content, sync_status)
\* VALUES (?, ?, 'pending') creates: the key comes from AUTOINCREMENT, both
\* timestamps from DEFAULT CURRENT_TIMESTAMP, synced_at has no default.
NewRow(id, title, content, t) ==
  [id |-> id, title |-> title, content |-> content, created_at |-> t,
   updated_at |-> t, synced_at |-> NoTime, sync_status |-> "pending"]

Put(tbl, row) ==
  [i \in DOMAIN tbl \cup {row.id} |-> IF i = row.id THEN row ELSE tbl[i]]

\* stmt.get() of a SELECT that matches no row, after "|| null".
NoRow == [id |-> 0]

\* RunInsert on a key declared without AUTOINCREMENT: the new rowid is one
\* more than the largest rowid in the table.
RunInsertReusesRowid(tbl, s, title, content, t) ==
  LET top == IF DOMAIN tbl = {} THEN 0
             ELSE CHOOSE i \in DOMAIN tbl : \A j \in DOMAIN tbl : j <= i
  IN IF title = NullText
       THEN [raised |-> TRUE, notes |-> tbl, seq |-> s, lastInsertRowid |-> 0]
       ELSE [raised |-> FALSE, notes |-> Put(tbl, NewRow(top + 1, title, content, t)),
             seq |-> top + 1, lastInsertRowid |-> top + 1]

\* insertStmt.run(title, content): title TEXT NOT NULL makes the statement
\* raise for a null title; a statement that raises changes nothing.
RunInsert(tbl, s, title, content, t) ==
  IF title = NullText
    THEN [raised |-> TRUE, notes |-> tbl, seq |-> s, lastInsertRowid |-> 0]
    ELSE [raised |-> FALSE, notes |-> Put(tbl, NewRow(s + 1, title, content, t)),
          seq |-> s + 1, lastInsertRowid |-> s + 1]

\* SELECT * FROM notes WHERE id = ?
getNoteById(tbl, id) == IF id \in DOMAIN tbl THEN tbl[id] ELSE NoRow

\* The allow-list of sort columns.
allowedColumns == {"id", "title", "created_at", "updated_at"}

\* The place of a title in the BINARY collation, for the titles in use.
Collate(text) == CASE text = "a" -> 1 [] text = "b" -> 2 [] OTHER -> 0

SortKey(row, col) ==
  CASE col = "id" -> row.id
    [] col = "title" -> Collate(row.title)
    [] col = "created_at" -> row.created_at
    [] OTHER -> row.updated_at

\* SELECT * FROM notes ORDER BY col dir: the orders of the rowids the engine
\* may produce. Rows with equal keys come in an order SQL leaves open.
OrderedBy(tbl, col, dir) ==
  {o \in [1..Cardinality(DOMAIN tbl) -> DOMAIN tbl] :
     /\ \A i, j \in DOMAIN o : i # j => o[i] # o[j]
     /\ \A i, j \in DOMAIN o : i < j =>
          IF dir = "ASC"
            THEN SortKey(tbl[o[i]], col) <= SortKey(tbl[o[j]], col)
            ELSE SortKey(tbl[o[i]], col) >= SortKey(tbl[o[j]], col)}

\* String.prototype.toUpperCase on the order arguments in use.
toUpperCase(str) ==
  CASE str \in {"asc", "Asc", "ASC"} -> "ASC"
    [] str \in {"desc", "DESC"} -> "DESC"
    [] OTHER -> str

\* getNotes that puts sortBy into the ORDER BY clause as it is: a name that
\* is no column makes the statement raise.
getNotesNoAllowList(tbl, sortBy, order) ==
  LET by == IF sortBy = Undefined THEN "created_at" ELSE sortBy
      ord == IF order = Undefined THEN "DESC" ELSE order
      sortOrder == IF toUpperCase(ord) = "ASC" THEN "ASC" ELSE "DESC"
  IN IF ord = NullText \/ by \notin allowedColumns
       THEN [raised |-> TRUE, rows |-> {}]
       ELSE [raised |-> FALSE,
             rows |-> {[k \in DOMAIN o |-> tbl[o[k]]] :
                         o \in OrderedBy(tbl, by, sortOrder)}]

\* getNotes(sortBy = 'created_at', order = 'DESC'): every result stmt.all()
\* may give. order.toUpperCase() raises a TypeError for a null order.
getNotes(tbl, sortBy, order) ==
  LET by == IF sortBy = Undefined THEN "created_at" ELSE sortBy
      ord == IF order = Undefined THEN "DESC" ELSE order
      sortColumn == IF by \in allowedColumns THEN by ELSE "created_at"
      sortOrder == IF toUpperCase(ord) = "ASC" THEN "ASC" ELSE "DESC"
  IN IF ord = NullText
       THEN [raised |-> TRUE, rows |-> {}]
       ELSE [raised |-> FALSE,
             rows |-> {[k \in DOMAIN o |-> tbl[o[k]]] :
                         o \in OrderedBy(tbl, sortColumn, sortOrder)}]

\* The characters of the texts in use: '' has none, 'zz' two, the others one.
Chars(text) ==
  CASE text = "" -> << >>
    [] text = "zz" -> <<"z", "z">>
    [] OTHER -> <<text>>

\* LIKE compares ASCII letters without regard to case.
Fold(c) == IF c = "A" THEN "a" ELSE c

\* text LIKE pattern, no ESCAPE: % stands for any run, _ for one character.
RECURSIVE Like(_, _)
Like(pattern, text) ==
  IF pattern = << >>
    THEN text = << >>
    ELSE IF Head(pattern) = "%"
      THEN \/ Like(Tail(pattern), text)
           \/ text # << >> /\ Like(pattern, Tail(text))
      ELSE /\ text # << >>
           /\ (Head(pattern) = "_" \/ Fold(Head(pattern)) = Fold(Head(text)))
           /\ Like(Tail(pattern), Tail(text))

\* WHERE title LIKE ? OR content LIKE ?   (NULL LIKE ? is not true)
LikeEither(row, searchTerm) ==
  \/ Like(searchTerm, Chars(row.title))
  \/ row.content # NullText /\ Like(searchTerm, Chars(row.content))

\* searchNotes(query): every result stmt.all() may give.
searchNotes(tbl, query) ==
  LET searchTerm == <<"%">> \o Chars(query) \o <<"%">>
      found == {i \in DOMAIN tbl : LikeEither(tbl[i], searchTerm)}
      hits == [i \in found |-> tbl[i]]
  IN {[k \in DOMAIN o |-> tbl[o[k]]] : o \in OrderedBy(hits, "created_at", "DESC")}

\* getStats that counts the notes in error as pending.
getStatsPendingIsToSync(tbl) ==
  [total |-> Cardinality(DOMAIN tbl),
   pending |-> Cardinality({i \in DOMAIN tbl : tbl[i].sync_status # "synced"}),
   synced |-> Cardinality({i \in DOMAIN tbl : tbl[i].sync_status = "synced"})]

\* getStats(): three COUNT(*) statements.
getStats(tbl) ==
  [total |-> Cardinality(DOMAIN tbl),
   pending |-> Cardinality({i \in DOMAIN tbl : tbl[i].sync_status = "pending"}),
   synced |-> Cardinality({i \in DOMAIN tbl : tbl[i].sync_status = "synced"})]

\* RunUpdate with sync_status reset only when the text changes.
RunUpdateIfChanged(tbl, id, title, content, t) ==
  IF id \notin DOMAIN tbl
    THEN [raised |-> FALSE, notes |-> tbl, changes |-> 0]
    ELSE IF title = NullText
      THEN [raised |-> TRUE, notes |-> tbl, changes |-> 0]
      ELSE [raised |-> FALSE, changes |-> 1,
            notes |-> [tbl EXCEPT ![id].title = title, ![id].content = content,
                                  ![id].updated_at = t,
                                  ![id].sync_status =
                                    IF tbl[id].title = title /\ tbl[id].content = content
                                      THEN @ ELSE "pending"]]

\* RunUpdate written as INSERT OR REPLACE: an id that matches no row makes one.
RunUpdateUpserts(tbl, id, title, content, t) ==
  IF title = NullText
    THEN [raised |-> TRUE, notes |-> tbl, changes |-> 0]
    ELSE IF id \notin DOMAIN tbl
      THEN [raised |-> FALSE, changes |-> 1,
            notes |-> Put(tbl, NewRow(id, title, content, t))]
      ELSE [raised |-> FALSE, changes |-> 1,
            notes |-> [tbl EXCEPT ![id].title = title, ![id].content = content,
                                  ![id].updated_at = t,
                                  ![id].sync_status = "pending"]]

\* UPDATE notes SET title = ?, content = ?, updated_at = CURRENT_TIMESTAMP,
\* sync_status = 'pending' WHERE id = ?   (NOT NULL is checked on a matched row)
RunUpdate(tbl, id, title, content, t) ==
  IF id \notin DOMAIN tbl
    THEN [raised |-> FALSE, notes |-> tbl, changes |-> 0]
    ELSE IF title = NullText
      THEN [raised |-> TRUE, notes |-> tbl, changes |-> 0]
      ELSE [raised |-> FALSE, changes |-> 1,
            notes |-> [tbl EXCEPT ![id].title = title, ![id].content = content,
                                  ![id].updated_at = t,
                                  ![id].sync_status = "pending"]]

\* RunDelete that reports a change for every statement it runs.
RunDeleteReportsRun(tbl, id) ==
  IF id \in DOMAIN tbl
    THEN [notes |-> [i \in DOMAIN tbl \ {id} |-> tbl[i]], changes |-> 1]
    ELSE [notes |-> tbl, changes |-> 1]

\* DELETE FROM notes WHERE id = ?
RunDelete(tbl, id) ==
  IF id \in DOMAIN tbl
    THEN [notes |-> [i \in DOMAIN tbl \ {id} |-> tbl[i]], changes |-> 1]
    ELSE [notes |-> tbl, changes |-> 0]

\* What a call hands back to its caller; every field has a neutral default.
Ret(op) ==
  [op |-> op, raised |-> FALSE, at |-> 0, success |-> FALSE, synced |-> 0,
   failed |-> 0, changes |-> 0, error |-> << >>, message |-> ""]

\* What the model keeps of a returned value: all but the two counts of a
\* cycle, and beside it what made the call fail (cause, no part of the value).
Kept(ret) ==
  [op |-> ret.op, raised |-> ret.raised, at |-> ret.at, success |-> ret.success,
   changes |-> ret.changes, error |-> ret.error, message |-> ret.message,
   cause |-> ""]

Caught(ret, cause) == [Kept(ret) EXCEPT !.cause = cause]

\* The connection new Database(dbPath) opens when the module is loaded. app
\* tells whether Electron's app object exists, closes counts the times the
\* connection went from open to closed.
Opened(app) == [app |-> app, open |-> TRUE, closes |-> 0, phase |-> "running"]

Init ==
  /\ conn = Opened(TRUE)
  /\ notes = << >>
  /\ seq = 0
  /\ now = 0
  /\ pc = "idle"
  /\ sent = << >>
  /\ last = Kept(Ret("load"))

\* CURRENT_TIMESTAMP never runs backwards and may stand still between calls.
Tick ==
  /\ now < MaxClock
  /\ now' = now + 1
  /\ UNCHANGED <<notes, seq, pc, sent, last, conn>>

\* ----------------------------------------------------------- repository
\* The message of the SqliteError of an INSERT or UPDATE with a null title.
NotNullMessage == <<"NOT", "NULL", "constraint", "failed:", "notes.title">>

\* error.message of what a statement threw, if it threw.
Thrown(raised) == IF raised THEN NotNullMessage ELSE << >>

addNote(title, content) ==
  /\ seq < MaxId
  /\ LET c == IF content = Undefined THEN "" ELSE content
         r == RunInsert(notes, seq, title, c, now)
     IN /\ notes' = r.notes
        /\ seq' = r.seq
        /\ last' = Kept([Ret("addNote") EXCEPT !.raised = r.raised,
                                                !.error = Thrown(r.raised)])
  /\ UNCHANGED <<now, pc, sent, conn>>

updateNote(id, title, content) ==
  /\ LET r == RunUpdate(notes, id, title, content, now)
     IN /\ notes' = r.notes
        /\ last' = Kept([Ret("updateNote") EXCEPT !.raised = r.raised,
                      !.error = Thrown(r.raised),
                      !.success = (r.changes > 0)])
  /\ UNCHANGED <<seq, now, pc, sent, conn>>

deleteNote(id) ==
  /\ LET r == RunDelete(notes, id)
     IN /\ notes' = r.notes
        /\ last' = Kept([Ret("deleteNote") EXCEPT !.success = (r.changes > 0)])
  /\ UNCHANGED <<seq, now, pc, sent, conn>>

\* InsertLoop with ids.unshift in place of ids.push.
RECURSIVE InsertLoopUnshift(_, _, _, _, _, _)
InsertLoopUnshift(tbl, s, input, i, ids, t) ==
  IF i > Len(input)
    THEN [raised |-> FALSE, notes |-> tbl, seq |-> s, ids |-> ids, at |-> 0]
    ELSE LET note == input[i]
             c == IF note.content \in {Undefined, NullText, ""} THEN "" ELSE note.content
             r == RunInsert(tbl, s, note.title, c, t)
         IN IF r.raised
              THEN [raised |-> TRUE, notes |-> r.notes, seq |-> r.seq,
                    ids |-> ids, at |-> i]
              ELSE InsertLoopUnshift(r.notes, r.seq, input, i + 1,
                                     <<r.lastInsertRowid>> \o ids, t)

\* The body of insertMany: the loop over the input, stopped by the first raise.
RECURSIVE InsertLoop(_, _, _, _, _, _)
InsertLoop(tbl, s, input, i, ids, t) ==
  IF i > Len(input)
    THEN [raised |-> FALSE, notes |-> tbl, seq |-> s, ids |-> ids, at |-> 0]
    ELSE LET note == input[i]
             c == IF note.content \in {Undefined, NullText, ""} THEN "" ELSE note.content
             r == RunInsert(tbl, s, note.title, c, t)
         IN IF r.raised
              THEN [raised |-> TRUE, notes |-> r.notes, seq |-> r.seq,
                    ids |-> ids, at |-> i]
              ELSE InsertLoop(r.notes, r.seq, input, i + 1,
                              Append(ids, r.lastInsertRowid), t)

\* Transaction without the ROLLBACK.
TransactionNoRollback(tbl, s, r) == r

\* db.transaction(fn): COMMIT when fn returns, ROLLBACK and rethrow when it raises.
Transaction(tbl, s, r) ==
  IF r.raised THEN [r EXCEPT !.notes = tbl, !.seq = s, !.ids = << >>] ELSE r

ValidBulkInputs == UNION {[1..n -> ValidBulkItems] : n \in 1..MaxId}
BulkInputs == UNION {[1..n -> BulkItems] : n \in 0..MaxId}

\* The rowids a call takes before it returns or raises.
BulkDemand(input) ==
  IF \E k \in DOMAIN input : input[k].title = NullText
    THEN (CHOOSE k \in DOMAIN input :
            /\ input[k].title = NullText
            /\ \A j \in 1..(k - 1) : input[j].title # NullText) - 1
    ELSE Len(input)

addNotesBulk(input) ==
  /\ seq + BulkDemand(input) <= MaxId
  /\ LET r == Transaction(notes, seq, InsertLoop(notes, seq, input, 1, << >>, now))
     IN /\ notes' = r.notes
        /\ seq' = r.seq
        /\ last' = Kept([Ret("addNotesBulk") EXCEPT !.raised = r.raised, !.at = r.at,
                                                     !.error = Thrown(r.raised)])
  /\ UNCHANGED <<now, pc, sent, conn>>

\* The calls that change the table: valid arguments, rowids that exist.
Repository ==
  \/ \E a \in ValidAddArgs : addNote(a[1], a[2])
  \/ \E i \in DOMAIN notes, a \in ValidUpdateArgs : updateNote(i, a[1], a[2])
  \/ \E i \in DOMAIN notes : deleteNote(i)
  \/ \E input \in ValidBulkInputs : addNotesBulk(input)

\* Every call, the refused and the unmatched ones included.
Calls ==
  \/ \E a \in AddArgs : addNote(a[1], a[2])
  \/ \E i \in Ids, a \in UpdateArgs : updateNote(i, a[1], a[2])
  \/ \E i \in Ids : deleteNote(i)
  \/ \E input \in BulkInputs : addNotesBulk(input)

\* ------------------------------------------------------------ sync status
\* ToSyncIds with WHERE sync_status = 'pending'.
ToSyncIdsPendingOnly(tbl) == {i \in DOMAIN tbl : tbl[i].sync_status = "pending"}

\* The rowids selected by WHERE sync_status IN ('pending', 'error').
ToSyncIds(tbl) == {i \in DOMAIN tbl : tbl[i].sync_status \in {"pending", "error"}}

\* OrderedByCreatedAsc with ORDER BY created_at DESC.
OrderedByCreatedDesc(tbl, S) ==
  {o \in [1..Cardinality(S) -> S] :
     /\ \A i, j \in DOMAIN o : i # j => o[i] # o[j]
     /\ \A i, j \in DOMAIN o : i < j => tbl[o[i]].created_at >= tbl[o[j]].created_at}

\* ORDER BY created_at ASC: the orders of the rowids in S the engine may
\* produce. Rows with equal created_at come in an order SQL leaves open.
OrderedByCreatedAsc(tbl, S) ==
  {o \in [1..Cardinality(S) -> S] :
     /\ \A i, j \in DOMAIN o : i # j => o[i] # o[j]
     /\ \A i, j \in DOMAIN o : i < j => tbl[o[i]].created_at <= tbl[o[j]].created_at}

\* getNotesToSync(): every result stmt.all() may give.
getNotesToSync(tbl) ==
  {[k \in DOMAIN o |-> tbl[o[k]]] : o \in OrderedByCreatedAsc(tbl, ToSyncIds(tbl))}

SeqRange(q) == {q[k] : k \in DOMAIN q}

\* The value passed as ids: an array, or null / undefined (no list).
NoList == [isList |-> FALSE, items |-> << >>]
List(q) == [isList |-> TRUE, items |-> q]

\* The rows an UPDATE ... WHERE id IN (...) matches.
Matched(tbl, ids) == DOMAIN tbl \cap SeqRange(ids.items)

\* What a marking call that returns at its guard gives: no statement is run.
Guarded(tbl) == [notes |-> tbl, changes |-> 0, raised |-> FALSE, statements |-> 0]

\* markNotesAsSynced without synced_at = CURRENT_TIMESTAMP.
markNotesAsSyncedNoStamp(tbl, ids, t) ==
  IF ~ids.isList \/ Len(ids.items) = 0
    THEN Guarded(tbl)
    ELSE [notes |-> [i \in DOMAIN tbl |->
                       IF i \in Matched(tbl, ids)
                         THEN [tbl[i] EXCEPT !.sync_status = "synced"]
                         ELSE tbl[i]],
          changes |-> Cardinality(Matched(tbl, ids)),
          raised |-> FALSE, statements |-> 1]

\* markNotesAsSynced that returns ids.length.
markNotesAsSyncedCountsIds(tbl, ids, t) ==
  IF ~ids.isList \/ Len(ids.items) = 0
    THEN Guarded(tbl)
    ELSE [notes |-> [i \in DOMAIN tbl |->
                       IF i \in Matched(tbl, ids)
                         THEN [tbl[i] EXCEPT !.sync_status = "synced", !.synced_at = t]
                         ELSE tbl[i]],
          changes |-> Len(ids.items),
          raised |-> FALSE, statements |-> 1]

\* markNotesAsSynced with the guard ids.length === 0 alone: reading the
\* length of no list raises a TypeError.
markNotesAsSyncedNoNullGuard(tbl, ids, t) ==
  IF ~ids.isList
    THEN [notes |-> tbl, changes |-> 0, raised |-> TRUE, statements |-> 0]
    ELSE IF Len(ids.items) = 0
      THEN Guarded(tbl)
      ELSE [notes |-> [i \in DOMAIN tbl |->
                         IF i \in Matched(tbl, ids)
                           THEN [tbl[i] EXCEPT !.sync_status = "synced", !.synced_at = t]
                           ELSE tbl[i]],
            changes |-> Cardinality(Matched(tbl, ids)),
            raised |-> FALSE, statements |-> 1]

\* markNotesAsSynced that sets updated_at = CURRENT_TIMESTAMP as well.
markNotesAsSyncedTouches(tbl, ids, t) ==
  IF ~ids.isList \/ Len(ids.items) = 0
    THEN Guarded(tbl)
    ELSE [notes |-> [i \in DOMAIN tbl |->
                       IF i \in Matched(tbl, ids)
                         THEN [tbl[i] EXCEPT !.sync_status = "synced", !.synced_at = t,
                                             !.updated_at = t]
                         ELSE tbl[i]],
          changes |-> Cardinality(Matched(tbl, ids)),
          raised |-> FALSE, statements |-> 1]

\* UPDATE notes SET sync_status = 'synced', synced_at = CURRENT_TIMESTAMP
\* WHERE id IN (...), behind the guard on an absent or empty list.
markNotesAsSynced(tbl, ids, t) ==
  IF ~ids.isList \/ Len(ids.items) = 0
    THEN Guarded(tbl)
    ELSE [notes |-> [i \in DOMAIN tbl |->
                       IF i \in Matched(tbl, ids)
                         THEN [tbl[i] EXCEPT !.sync_status = "synced", !.synced_at = t]
                         ELSE tbl[i]],
          changes |-> Cardinality(Matched(tbl, ids)),
          raised |-> FALSE, statements |-> 1]

\* markNotesSyncError that deletes the rows it matches.
markNotesSyncErrorDeletes(tbl, ids) ==
  IF ~ids.isList \/ Len(ids.items) = 0
    THEN Guarded(tbl)
    ELSE [notes |-> [i \in DOMAIN tbl \ Matched(tbl, ids) |-> tbl[i]],
          changes |-> Cardinality(Matched(tbl, ids)),
          raised |-> FALSE, statements |-> 1]

\* markNotesSyncError that sets synced_at = updated_at as well.
markNotesSyncErrorStamps(tbl, ids) ==
  IF ~ids.isList \/ Len(ids.items) = 0
    THEN Guarded(tbl)
    ELSE [notes |-> [i \in DOMAIN tbl |->
                       IF i \in Matched(tbl, ids)
                         THEN [tbl[i] EXCEPT !.sync_status = "error",
                                             !.synced_at = tbl[i].updated_at]
                         ELSE tbl[i]],
          changes |-> Cardinality(Matched(tbl, ids)),
          raised |-> FALSE, statements |-> 1]

\* markNotesSyncError that sets synced_at = NULL as well.
markNotesSyncErrorClearsStamp(tbl, ids) ==
  IF ~ids.isList \/ Len(ids.items) = 0
    THEN Guarded(tbl)
    ELSE [notes |-> [i \in DOMAIN tbl |->
                       IF i \in Matched(tbl, ids)
                         THEN [tbl[i] EXCEPT !.sync_status = "error", !.synced_at = NoTime]
                         ELSE tbl[i]],
          changes |-> Cardinality(Matched(tbl, ids)),
          raised |-> FALSE, statements |-> 1]

\* UPDATE notes SET sync_status = 'error' WHERE id IN (...), same guard.
markNotesSyncError(tbl, ids) ==
  IF ~ids.isList \/ Len(ids.items) = 0
    THEN Guarded(tbl)
    ELSE [notes |-> [i \in DOMAIN tbl |->
                       IF i \in Matched(tbl, ids)
                         THEN [tbl[i] EXCEPT !.sync_status = "error"]
                         ELSE tbl[i]],
          changes |-> Cardinality(Matched(tbl, ids)),
          raised |-> FALSE, statements |-> 1]

\* -------------------------------------------------------------- sync cycle
\* Error messages are sequences of words; String.prototype.includes is
\* modelled on whole words.
Includes(msg, word) == \E k \in DOMAIN msg : msg[k] = word

\* The message of the TypeError a failed fetch() rejects with.
FetchFailedMessage == <<"fetch", "failed">>
\* The message of the SyntaxError response.json() rejects with.
JsonErrorMessage == <<"Unexpected", "token">>
\* The message of the TypeError of reading a property of a null result.
NullResultMessage == <<"Cannot", "read", "properties", "of", "null">>
\* The message of a SqliteError raised by a statement (locked file, full disk).
StorageFaultMessage == <<"database", "is", "locked">>

\* Status lines the remote may answer with; the reason phrase is its choice.
Statuses == {200, 500}
StatusTexts == {<<"Internal", "Server", "Error">>, <<"network", "unreachable">>}
\* response.ok without the upper end of the 2xx range.
ResponseOkLoose(status) == status >= 200

\* response.ok
ResponseOk(status) == status >= 200 /\ status <= 299

\* `Sync failed: ${response.status} ${response.statusText}`
SyncFailedMessage(status, statusText) == <<"Sync", "failed:", ToString(status)>> \o statusText

OfflineError == <<"Network", "error:", "App", "appears", "to", "be", "offline">>

\* Catch that returns for the offline case only and rethrows the rest.
CatchRethrows(msg) ==
  IF Includes(msg, "fetch") \/ Includes(msg, "network")
    THEN [Ret("syncWithBackend") EXCEPT !.error = OfflineError, !.message = "offline"]
    ELSE [Ret("syncWithBackend") EXCEPT !.raised = TRUE, !.error = msg]

\* The catch block of syncWithBackend: the outcome for a caught error.
Catch(msg) ==
  IF Includes(msg, "fetch") \/ Includes(msg, "network")
    THEN [Ret("syncWithBackend") EXCEPT !.error = OfflineError, !.message = "offline"]
    ELSE [Ret("syncWithBackend") EXCEPT !.error = msg, !.message = "failed"]

\* Project that sends the row as it is stored.
ProjectWholeRow(note) == note

\* note => ({id, title, content, created_at, updated_at})
Project(note) ==
  [id |-> note.id, title |-> note.title, content |-> note.content,
   created_at |-> note.created_at, updated_at |-> note.updated_at]

\* { success: true, synced: 0, message: 'No notes to sync' }
NoNotesToSync ==
  [Ret("syncWithBackend") EXCEPT !.success = TRUE, !.synced = 0,
                                 !.message = "No notes to sync"]

\* syncCollect without the return on an empty notesToSync.
syncCollectSendsEmpty(fault) ==
  /\ pc = "idle"
  /\ UNCHANGED <<notes, seq, now, conn>>
  /\ IF fault
       THEN /\ last' = Caught(Catch(StorageFaultMessage), "storage")
            /\ UNCHANGED <<pc, sent>>
       ELSE \E notesToSync \in getNotesToSync(notes) :
              /\ sent' = [k \in DOMAIN notesToSync |-> Project(notesToSync[k])]
              /\ pc' = "fetch"
              /\ last' = Kept([Ret("syncWithBackend") EXCEPT !.message = "in flight"])

\* Collect and transmit: from the call to the first await.
syncCollect(fault) ==
  /\ pc = "idle"
  /\ UNCHANGED <<notes, seq, now, conn>>
  /\ IF fault
       THEN /\ last' = Caught(Catch(StorageFaultMessage), "storage")
            /\ UNCHANGED <<pc, sent>>
       ELSE \E notesToSync \in getNotesToSync(notes) :
              IF Len(notesToSync) = 0
                THEN /\ last' = Kept(NoNotesToSync)
                     /\ UNCHANGED <<pc, sent>>
                ELSE /\ sent' = [k \in DOMAIN notesToSync |-> Project(notesToSync[k])]
                     /\ pc' = "fetch"
                     /\ last' = Kept([Ret("syncWithBackend") EXCEPT !.message = "in flight"])

\* fetchRejects that marks the notes of the failed request 'error'.
fetchRejectsMarksError ==
  /\ pc = "fetch"
  /\ pc' = "idle"
  /\ sent' = << >>
  /\ last' = Caught(Catch(FetchFailedMessage), "transport")
  /\ notes' = markNotesSyncError(notes, List([k \in DOMAIN sent |-> sent[k].id])).notes
  /\ UNCHANGED <<seq, now, conn>>

\* await fetch(...) rejects: the remote could not be reached.
fetchRejects ==
  /\ pc = "fetch"
  /\ pc' = "idle"
  /\ sent' = << >>
  /\ last' = Caught(Catch(FetchFailedMessage), "transport")
  /\ UNCHANGED <<notes, seq, now, conn>>

\* await fetch(...) resolves with a response; !response.ok throws.
fetchResolves(status, statusText) ==
  /\ pc = "fetch"
  /\ UNCHANGED <<notes, seq, now, conn>>
  /\ IF ResponseOk(status)
       THEN /\ pc' = "json"
            /\ UNCHANGED <<sent, last>>
       ELSE /\ pc' = "idle"
            /\ sent' = << >>
            /\ last' = Caught(Catch(SyncFailedMessage(status, statusText)), "status")

\* await response.json() rejects: the body is no JSON.
jsonRejects ==
  /\ pc = "json"
  /\ pc' = "idle"
  /\ sent' = << >>
  /\ last' = Caught(Catch(JsonErrorMessage), "body")
  /\ UNCHANGED <<notes, seq, now, conn>>

IdLists == UNION {[1..n -> Ids] : n \in 0..MaxList}

\* A parsed body: null, or an object whose two lists may each be missing.
Results ==
  [isNull : {TRUE}, hasSynced : {FALSE}, syncedIds : {<< >>},
   hasFailed : {FALSE}, failedIds : {<< >>}]
  \cup
  {r \in [isNull : {FALSE}, hasSynced : BOOLEAN, syncedIds : IdLists,
          hasFailed : BOOLEAN, failedIds : IdLists] :
     /\ ~r.hasSynced => r.syncedIds = << >>
     /\ ~r.hasFailed => r.failedIds = << >>}

\* Reconcile that marks the rejected ids before the accepted ids.
ReconcileErrorFirst(tbl, result, fault, t) ==
  IF result.isNull
    THEN [notes |-> tbl, outcome |-> Catch(NullResultMessage), cause |-> "result"]
    ELSE
      LET doSynced == result.hasSynced /\ Len(result.syncedIds) > 0
          doFailed == result.hasFailed /\ Len(result.failedIds) > 0
          e == IF doFailed THEN markNotesSyncError(tbl, List(result.failedIds))
               ELSE [notes |-> tbl, changes |-> 0]
          s == IF doSynced THEN markNotesAsSynced(e.notes, List(result.syncedIds), t)
               ELSE [notes |-> e.notes, changes |-> 0]
      IN [notes |-> s.notes, cause |-> "",
          outcome |-> [Ret("syncWithBackend") EXCEPT
                         !.success = TRUE,
                         !.synced = Len(result.syncedIds),
                         !.failed = Len(result.failedIds),
                         !.message = "Synced"]]

\* Reconcile that marks every note of the batch sent 'synced' on a 2xx
\* answer, whatever the lists say.
ReconcileAssumesSuccess(tbl, result, fault, t) ==
  IF result.isNull
    THEN [notes |-> tbl, outcome |-> Catch(NullResultMessage), cause |-> "result"]
    ELSE
      LET batch == List([k \in DOMAIN sent |-> sent[k].id])
          s == markNotesAsSynced(tbl, batch, t)
      IN [notes |-> s.notes, cause |-> "",
          outcome |-> [Ret("syncWithBackend") EXCEPT
                         !.success = TRUE,
                         !.synced = Len(result.syncedIds),
                         !.failed = Len(result.failedIds),
                         !.message = "Synced"]]

\* Reconcile and report: from the parsed result to the return. fault names
\* the statement that raises, if it is executed.
Reconcile(tbl, result, fault, t) ==
  IF result.isNull
    THEN [notes |-> tbl, outcome |-> Catch(NullResultMessage), cause |-> "result"]
    ELSE
      LET doSynced == result.hasSynced /\ Len(result.syncedIds) > 0
          doFailed == result.hasFailed /\ Len(result.failedIds) > 0
          s == IF doSynced THEN markNotesAsSynced(tbl, List(result.syncedIds), t)
               ELSE [notes |-> tbl, changes |-> 0]
          e == IF doFailed THEN markNotesSyncError(s.notes, List(result.failedIds))
               ELSE [notes |-> s.notes, changes |-> 0]
      IN IF doSynced /\ fault = "markNotesAsSynced"
           THEN [notes |-> tbl, outcome |-> Catch(StorageFaultMessage), cause |-> "storage"]
           ELSE IF doFailed /\ fault = "markNotesSyncError"
             THEN [notes |-> s.notes, outcome |-> Catch(StorageFaultMessage),
                   cause |-> "storage"]
             ELSE [notes |-> e.notes, cause |-> "",
                   outcome |-> [Ret("syncWithBackend") EXCEPT
                                  !.success = TRUE,
                                  !.synced = Len(result.syncedIds),
                                  !.failed = Len(result.failedIds),
                                  !.message = "Synced"]]

\* The statements of the reconcile step that may raise for this result.
Faults(result) ==
  {"none"}
  \cup (IF result.hasSynced /\ Len(result.syncedIds) > 0 THEN {"markNotesAsSynced"} ELSE {})
  \cup (IF result.hasFailed /\ Len(result.failedIds) > 0 THEN {"markNotesSyncError"} ELSE {})

\* await response.json() resolves.
jsonResolves(result, fault) ==
  /\ pc = "json"
  /\ pc' = "idle"
  /\ sent' = << >>
  /\ LET r == Reconcile(notes, result, fault, now)
     IN /\ notes' = r.notes
        /\ last' = Caught(r.outcome, r.cause)
  /\ UNCHANGED <<seq, now, conn>>

Sync ==
  \/ \E fault \in BOOLEAN : syncCollect(fault)
  \/ fetchRejects
  \/ \E status \in Statuses, statusText \in StatusTexts : fetchResolves(status, statusText)
  \/ jsonRejects
  \/ \E result \in Results : \E fault \in Faults(result) : jsonResolves(result, fault)

\* The remote accepts the connection and never answers: fetch() is called
\* without a signal or a timeout, so nothing resumes the cycle.
remoteHangs ==
  /\ pc = "fetch"
  /\ pc' = "hung"
  /\ UNCHANGED <<notes, seq, now, sent, last, conn>>

Next == Tick \/ Repository \/ Sync

Spec == Init /\ [][Next]_vars

\* The sync cycle against a remote that may hang. An answer that is on its
\* way arrives and the continuation of the await runs.
LiveNext ==
  \/ Tick
  \/ \E a \in ValidAddArgs : addNote(a[1], a[2])
  \/ Sync
  \/ remoteHangs

FetchSettles ==
  fetchRejects \/ \E status \in Statuses, statusText \in StatusTexts : fetchResolves(status, statusText)

JsonSettles ==
  jsonRejects \/ \E result \in Results : \E fault \in Faults(result) : jsonResolves(result, fault)

LiveSpec ==
  Init /\ [][LiveNext]_vars /\ WF_vars(FetchSettles) /\ WF_vars(JsonSettles)

\* The repository alone, called with every argument.
CallsNext == Tick \/ Calls

CallsSpec == Init /\ [][CallsNext]_vars

\* The sync status functions as the module exports them, called directly.
callMarkNotesAsSynced(ids) ==
  /\ LET r == markNotesAsSynced(notes, ids, now)
     IN /\ notes' = r.notes
        /\ last' = Kept([Ret("markNotesAsSynced") EXCEPT !.raised = r.raised,
                                                          !.changes = r.changes])
  /\ UNCHANGED <<seq, now, pc, sent, conn>>

callMarkNotesSyncError(ids) ==
  /\ LET r == markNotesSyncError(notes, ids)
     IN /\ notes' = r.notes
        /\ last' = Kept([Ret("markNotesSyncError") EXCEPT !.raised = r.raised,
                                                           !.changes = r.changes])
  /\ UNCHANGED <<seq, now, pc, sent, conn>>

\* The ids arguments the calls are tried with: no list, and every list.
IdsArgs == {NoList} \cup {List(q) : q \in IdLists}

\* Notes are added and marked within one second of CURRENT_TIMESTAMP.
TrackerNext ==
  \/ \E a \in ValidAddArgs : addNote(a[1], a[2])
  \/ \E ids \in IdsArgs : callMarkNotesAsSynced(ids)
  \/ \E ids \in IdsArgs : callMarkNotesSyncError(ids)

TrackerSpec == Init /\ [][TrackerNext]_vars

\* -------------------------------------------------------------- lifecycle
\* db.close(): closing a connection that is closed already does nothing.
Close(c) == IF c.open THEN [c EXCEPT !.open = FALSE, !.closes = @ + 1] ELSE c

\* A quit is asked for (app.quit() after the Squirrel check or after
\* window-all-closed, or the user quits): Electron emits before-quit and the
\* handler registered by the database module closes the connection.
beforeQuit ==
  /\ conn.app
  /\ conn.phase = "running"
  /\ conn' = [Close(conn) EXCEPT !.phase = "quitting"]
  /\ UNCHANGED <<notes, seq, now, pc, sent, last>>

\* A window refuses to close and the quit is abandoned; the handlers stay
\* registered (app.on, not app.once), so the next quit emits before-quit again.
quitAbandoned ==
  /\ conn.phase = "quitting"
  /\ conn' = [conn EXCEPT !.phase = "running"]
  /\ UNCHANGED <<notes, seq, now, pc, sent, last>>

\* The windows are closed and the process ends.
quitCompletes ==
  /\ conn.phase = "quitting"
  /\ conn' = [conn EXCEPT !.phase = "exited"]
  /\ UNCHANGED <<notes, seq, now, pc, sent, last>>

\* The process ends without before-quit: a crash, a kill, app.exit(), or the
\* end of a process that has no app object and so no handler.
exitWithoutQuit ==
  /\ conn.phase # "exited"
  /\ conn' = [conn EXCEPT !.phase = "exited"]
  /\ UNCHANGED <<notes, seq, now, pc, sent, last>>

\* The message of the TypeError a statement on a closed connection raises.
NotOpenMessage == <<"The", "database", "connection", "is", "not", "open">>

\* A repository call made after the connection was closed: db.prepare raises.
callOnClosed(op) ==
  /\ conn.phase # "exited"
  /\ ~conn.open
  /\ last' = Kept([Ret(op) EXCEPT !.raised = TRUE, !.error = NotOpenMessage])
  /\ UNCHANGED <<notes, seq, now, pc, sent, conn>>

LifeInit ==
  /\ conn \in {Opened(TRUE), Opened(FALSE)}
  /\ notes = << >>
  /\ seq = 0
  /\ now = 0
  /\ pc = "idle"
  /\ sent = << >>
  /\ last = Kept(Ret("load"))

LifeNext ==
  \/ beforeQuit
  \/ quitAbandoned
  \/ quitCompletes
  \/ exitWithoutQuit
  \/ (conn.phase # "exited" /\ Tick)
  \/ (conn.phase # "exited" /\ conn.open /\ \E a \in ValidAddArgs : addNote(a[1], a[2]))
  \/ (conn.phase # "exited" /\ conn.open /\ \E i \in DOMAIN notes : deleteNote(i))
  \/ \E op \in {"addNote", "deleteNote", "getNotes"} : callOnClosed(op)

LifeSpec == LifeInit /\ [][LifeNext]_vars

\* ---------------------------------------------------------------- queries
\* The message of the TypeError of calling toUpperCase on null.
NullOrderMessage == <<"Cannot", "read", "properties", "of", "null">>

\* The calls that read the table; last.success tells a row from null.
callGetNotes(sortBy, order) ==
  /\ LET r == getNotes(notes, sortBy, order)
     IN last' = Kept([Ret("getNotes") EXCEPT
                        !.raised = r.raised,
                        !.error = IF r.raised THEN NullOrderMessage ELSE << >>])
  /\ UNCHANGED <<notes, seq, now, pc, sent, conn>>

callGetNoteById(id) ==
  /\ last' = Kept([Ret("getNoteById") EXCEPT
                     !.success = (getNoteById(notes, id) # NoRow)])
  /\ UNCHANGED <<notes, seq, now, pc, sent, conn>>

callSearchNotes(query) ==
  /\ searchNotes(notes, query) # {}
  /\ last' = Kept(Ret("searchNotes"))
  /\ UNCHANGED <<notes, seq, now, pc, sent, conn>>

callGetStats ==
  /\ getStats(notes).total >= 0
  /\ last' = Kept(Ret("getStats"))
  /\ UNCHANGED <<notes, seq, now, pc, sent, conn>>

\* The arguments the reading calls are tried with.
SortBys == allowedColumns \cup {Undefined, "not_a_column"}
Orders == {Undefined, "ASC", "asc", "DESC", "sideways", NullText}
Queries == {"", "a", "A", "x", "zz", "_", "%"}

Reads ==
  \/ \E sortBy \in SortBys, order \in Orders : callGetNotes(sortBy, order)
  \/ \E id \in Ids : callGetNoteById(id)
  \/ \E query \in Queries : callSearchNotes(query)
  \/ callGetStats

\* The notes the reading calls are tried on: with and without a content.
QueryAddArgs == {<<"a", NullText>>, <<"b", "x">>}

QueryNext ==
  \/ Tick
  \/ \E a \in QueryAddArgs : addNote(a[1], a[2])
  \/ \E i \in DOMAIN notes, a \in ValidUpdateArgs : updateNote(i, a[1], a[2])
  \/ \E i \in DOMAIN notes : deleteNote(i)
  \/ Reads

QuerySpec == Init /\ [][QueryNext]_vars

\* -------------------------------------------------------------------- ipc
\* The channels ipcMain.handle is called for, without their db: prefix.
Channels ==
  {"addNote", "getNotes", "getNoteById", "updateNote", "deleteNote",
   "addNotesBulk", "searchNotes", "getStats", "syncWithBackend"}

NoteNotFound == <<"Note", "not", "found">>

\* What the handler's promise settles with.
Settled(success, error, message) ==
  [rejected |-> FALSE, success |-> success, error |-> error, message |-> message]

\* The handlers without their try/catch: what the call throws rejects the
\* promise.
handleNoCatch(ret) ==
  IF ret.raised
    THEN [rejected |-> TRUE, success |-> FALSE, error |-> ret.error, message |-> ""]
  ELSE IF ret.op = "syncWithBackend"
    THEN Settled(ret.success, ret.error, ret.message)
  ELSE IF ret.op \in {"getNoteById", "updateNote"} /\ ~ret.success
    THEN Settled(FALSE, NoteNotFound, "")
  ELSE IF ret.op = "deleteNote"
    THEN Settled(ret.success, << >>,
                 IF ret.success THEN "Note deleted" ELSE "Note not found")
  ELSE Settled(TRUE, << >>, "")

\* The handler of a channel, from what the repository call returned or threw
\* (ret) to what the renderer receives.
handle(ret) ==
  IF ret.op = "syncWithBackend"
    THEN IF ret.raised
           THEN Settled(FALSE, ret.error, "Sync failed")
           ELSE Settled(ret.success, ret.error, ret.message)
  ELSE IF ret.raised
    THEN Settled(FALSE, ret.error, "")
  ELSE IF ret.op \in {"getNoteById", "updateNote"} /\ ~ret.success
    THEN Settled(FALSE, NoteNotFound, "")
  ELSE IF ret.op = "deleteNote"
    THEN Settled(ret.success, << >>,
                 IF ret.success THEN "Note deleted" ELSE "Note not found")
  ELSE Settled(TRUE, << >>, "")

\* The renderer invokes the channels with every argument, until the quit
\* that closes the connection and after it.
IpcNext ==
  \/ (conn.open /\ Calls)
  \/ (conn.open /\ Reads)
  \/ (conn.open /\ Sync)
  \/ (pc = "idle" /\ beforeQuit)
  \/ \E op \in Channels \ {"syncWithBackend"} : callOnClosed(op)

IpcSpec == Init /\ [][IpcNext]_vars

\* ------------------------------------------------------------------ claims
SentIds == {sent[k].id : k \in DOMAIN sent}

\* C1: for every existing note, whatever its sync_status, updateNote(id, t, c)
\* followed by getNoteById(id) gives title t, content c, sync_status 'pending'
\* and updated_at >= created_at, also when t and c are the stored values.
C1_UpdateThenGet ==
  [][\A id \in DOMAIN notes, a \in ValidUpdateArgs :
       updateNote(id, a[1], a[2]) =>
         LET n == getNoteById(notes', id)
         IN /\ n.title = a[1]
            /\ n.content = a[2]
            /\ n.sync_status = "pending"
            /\ n.updated_at >= n.created_at]_vars

\* An update has just put a note that had been synced back to pending.
C1_SyncedNoteUpdated ==
  /\ last.op = "updateNote"
  /\ last.success
  /\ \E i \in DOMAIN notes :
       /\ notes[i].sync_status = "pending"
       /\ notes[i].synced_at # NoTime
       /\ notes[i].updated_at > notes[i].created_at

\* C2: a note is 'synced' only with the title and content that were sent in
\* the request the remote accepted. Stated at the step that marks it: a note
\* of the transmitted batch that the reconcile step turns 'synced' has the
\* title and content of the request.
C2_SyncedIsWhatWasSent ==
  [][(pc = "json" /\ pc' = "idle") =>
       \A i \in DOMAIN notes' \cap SentIds :
         (notes'[i].sync_status = "synced" /\ notes[i].sync_status # "synced") =>
           \E k \in DOMAIN sent :
             /\ sent[k].id = i
             /\ sent[k].title = notes'[i].title
             /\ sent[k].content = notes'[i].content]_vars

\* The answers C3 is about: 2xx, S and F disjoint subsets of the ids sent.
C3_Answer(result) ==
  /\ ~result.isNull
  /\ SeqRange(result.syncedIds) \subseteq SentIds
  /\ SeqRange(result.failedIds) \subseteq SentIds
  /\ SeqRange(result.syncedIds) \cap SeqRange(result.failedIds) = {}

\* C3: when the remote answers 2xx with syncedIds = S and failedIds = F,
\* disjoint subsets of the ids sent, the reconcile step leaves every note of S
\* 'synced' with a synced_at, every note of F 'error', and getNotesToSync()
\* then returns the notes outside S that are in F or were still to sync.
C3_Reconciled ==
  pc = "json" =>
    \A result \in Results :
      C3_Answer(result) =>
        LET r == Reconcile(notes, result, "none", now)
            S == SeqRange(result.syncedIds)
            F == SeqRange(result.failedIds)
        IN /\ r.outcome.success
           /\ DOMAIN r.notes = DOMAIN notes
           /\ \A i \in DOMAIN notes \cap S :
                r.notes[i].sync_status = "synced" /\ r.notes[i].synced_at # NoTime
           /\ \A i \in DOMAIN notes \cap F : r.notes[i].sync_status = "error"
           /\ \A q \in getNotesToSync(r.notes) :
                /\ {q[k].id : k \in DOMAIN q} =
                     {i \in DOMAIN notes : i \notin S /\ (i \in F \/ i \in ToSyncIds(notes))}
                /\ \A k \in DOMAIN q : q[k] = r.notes[q[k].id]

\* A cycle has returned with one note accepted and another rejected.
C3_OneSyncedOneRejected ==
  /\ last.op = "syncWithBackend"
  /\ last.message = "Synced"
  /\ \E i, j \in DOMAIN notes :
       /\ notes[i].sync_status = "synced" /\ notes[i].synced_at # NoTime
       /\ notes[j].sync_status = "error"

\* C4: when the transport call fails, the cycle returns success = false and
\* none of its steps has changed a note.
C4_UnreachableChangesNothing ==
  [][/\ fetchRejects => (notes' = notes /\ ~last'.success /\ last'.op = "syncWithBackend")
     /\ (\E fault \in BOOLEAN : syncCollect(fault)) => notes' = notes]_vars

\* A cycle over pending notes has ended on a failed transport call.
C4_ReturnedOffline ==
  /\ last.op = "syncWithBackend"
  /\ last.error = OfflineError
  /\ ToSyncIds(notes) # {}

\* C5: the offline outcome is returned for every transport failure and for
\* nothing else: a non-2xx answer and an unparsable body give the other
\* failure outcome, which carries the message of the error.
C5_OfflineIffTransport ==
  (last.op = "syncWithBackend" /\ last.cause # "") =>
    /\ last.error = OfflineError <=> last.cause = "transport"
    /\ last.cause = "body" => last.error = JsonErrorMessage
    /\ last.cause = "status" =>
         \E status \in Statuses, statusText \in StatusTexts :
           last.error = SyncFailedMessage(status, statusText)

\* C6: a non-2xx answer fails the whole batch: the cycle returns
\* success = false and no note is changed; the body is not read.
C6_Non2xxChangesNothing ==
  [][\A status \in Statuses, statusText \in StatusTexts :
       (fetchResolves(status, statusText) /\ status \notin 200..299) =>
         /\ notes' = notes
         /\ pc' = "idle"
         /\ last'.op = "syncWithBackend"
         /\ ~last'.success]_vars

\* A cycle over pending notes has ended on a non-2xx answer.
C6_ReturnedSyncFailed ==
  /\ last.op = "syncWithBackend"
  /\ ~last.success
  /\ Includes(last.error, "Sync")
  /\ ToSyncIds(notes) # {}

\* C7: marking the accepted ids and marking the rejected ids are independent:
\* when markNotesAsSynced raises, the rejected notes still end as 'error'.
C7_RejectedMarkedAnyway ==
  pc = "json" =>
    \A result \in Results :
      (C3_Answer(result) /\ "markNotesAsSynced" \in Faults(result)) =>
        LET r == Reconcile(notes, result, "markNotesAsSynced", now)
        IN \A i \in DOMAIN notes \cap SeqRange(result.failedIds) :
             r.notes[i].sync_status = "error"

\* C8: every started cycle returns to its caller, also when the remote
\* accepts the connection and never answers.
C8_CycleReturns == (pc = "fetch") ~> (pc = "idle")

\* C9: syncWithBackend never raises: whatever ends the cycle, its caller gets
\* an outcome with a boolean success.
C9_SyncAlwaysReturns ==
  (last.op = "syncWithBackend" /\ last.message # "in flight") =>
    /\ ~last.raised
    /\ last.success \in BOOLEAN
    /\ last.success <=> last.message \in {"Synced", "No notes to sync"}
    /\ ~last.success <=> last.message \in {"offline", "failed"}

\* A cycle has ended on a storage fault.
C9_ReturnedStorageFault ==
  /\ last.op = "syncWithBackend"
  /\ last.error = StorageFaultMessage
  /\ ~last.success

\* C10: addNotesBulk is all-or-nothing: when the insert of an element raises,
\* the table is as it was before the call.
C10_BulkAllOrNothing ==
  [][\A input \in BulkInputs :
       (addNotesBulk(input) /\ last'.raised) => notes' = notes]_vars

\* A bulk insert has raised after its first element was inserted, on a
\* table that held a note.
C10_RaisedMidBatch ==
  /\ last.op = "addNotesBulk"
  /\ last.raised
  /\ last.at > 1
  /\ DOMAIN notes # {}

\* C11: for an input of k valid notes addNotesBulk returns k pairwise distinct
\* ids in input order: the i-th id is the key of a new note built from the
\* i-th element, with sync_status 'pending'; getNotes() grows by exactly k.
C11_BulkReturnsIdsInOrder ==
  [][\A input \in BulkInputs :
       ((\A k \in DOMAIN input : input[k].title # NullText) /\ addNotesBulk(input)) =>
         LET ids == Transaction(notes, seq,
                                InsertLoop(notes, seq, input, 1, << >>, now)).ids
         IN /\ ~last'.raised
            /\ Len(ids) = Len(input)
            /\ \A i, j \in DOMAIN ids : i # j => ids[i] # ids[j]
            /\ \A i \in DOMAIN ids :
                 /\ ids[i] \in DOMAIN notes' \ DOMAIN notes
                 /\ notes'[ids[i]].title = input[i].title
                 /\ notes'[ids[i]].content =
                      (IF input[i].content = NullText THEN "" ELSE input[i].content)
                 /\ notes'[ids[i]].sync_status = "pending"
            /\ \A before \in getNotes(notes, Undefined, Undefined).rows,
                  after \in getNotes(notes', Undefined, Undefined).rows :
                 Len(after) = Len(before) + Len(input)]_vars

\* A bulk insert of two notes has returned on a table that had been used.
C11_TwoInserted ==
  /\ last.op = "addNotesBulk"
  /\ ~last.raised
  /\ seq = MaxId
  /\ \E i \in DOMAIN notes :
       /\ i + 1 \in DOMAIN notes
       /\ notes[i].title # notes[i + 1].title
       /\ notes[i].sync_status = "pending" /\ notes[i + 1].sync_status = "pending"

\* C12: addNote(title, content) followed by getNoteById of the returned id
\* gives a note with that title and content ('' when content is left out),
\* sync_status 'pending', synced_at null and created_at = updated_at; the
\* notes that existed before are unchanged.
C12_AddThenGet ==
  [][\A a \in ValidAddArgs :
       addNote(a[1], a[2]) =>
         LET id == seq'
             n == getNoteById(notes', id)
         IN /\ ~last'.raised
            /\ id \notin DOMAIN notes
            /\ n # NoRow
            /\ n.id = id
            /\ n.title = a[1]
            /\ n.content = (IF a[2] = Undefined THEN "" ELSE a[2])
            /\ n.sync_status = "pending"
            /\ n.synced_at = NoTime
            /\ n.created_at = n.updated_at
            /\ DOMAIN notes' = DOMAIN notes \cup {id}
            /\ \A i \in DOMAIN notes : notes'[i] = notes[i]]_vars

\* A note has been added without a content beside an older note that has
\* been updated since it was created.
C12_AddedBesideOlder ==
  /\ last.op = "addNote"
  /\ ~last.raised
  /\ seq \in DOMAIN notes
  /\ notes[seq].content = ""
  /\ \E i \in DOMAIN notes : i < seq /\ notes[i].updated_at > notes[i].created_at

\* A step of the sync cycle: the call itself or one of its continuations.
CycleStep ==
  \/ pc' # pc
  \/ last' # last /\ last'.op = "syncWithBackend"

\* C13: a sync cycle changes only sync_status and synced_at: no step of a
\* cycle, whatever the remote answers, adds or removes a note or changes the
\* id, title, content, created_at or updated_at of one.
C13_CycleKeepsText ==
  [][CycleStep =>
       /\ DOMAIN notes' = DOMAIN notes
       /\ \A i \in DOMAIN notes :
            /\ notes'[i].id = notes[i].id
            /\ notes'[i].title = notes[i].title
            /\ notes'[i].content = notes[i].content
            /\ notes'[i].created_at = notes[i].created_at
            /\ notes'[i].updated_at = notes[i].updated_at]_vars

\* A cycle has marked a note synced later than the note was last updated.
C13_SyncedAfterUpdate ==
  /\ last.op = "syncWithBackend"
  /\ last.message = "Synced"
  /\ \E i \in DOMAIN notes :
       /\ notes[i].sync_status = "synced"
       /\ notes[i].synced_at > notes[i].updated_at

\* C14: a pending or error note stays eligible for sync. A cycle that ends,
\* offline, on a non-2xx answer or with a rejection, leaves every note of its
\* batch that still exists pending or error unless it marks the note synced;
\* nothing but a cycle marking a note synced ends its eligibility; and the
\* next cycle transmits every note that is pending or error.
C14_StaysEligible ==
  [][/\ (pc # "idle" /\ pc' = "idle") =>
          \A i \in SentIds \cap DOMAIN notes' :
            \/ notes'[i].sync_status \in {"pending", "error"}
            \/ notes'[i].sync_status = "synced" /\ pc = "json"
     /\ \A i \in DOMAIN notes \cap DOMAIN notes' :
          (/\ notes[i].sync_status \in {"pending", "error"}
           /\ notes'[i].sync_status \notin {"pending", "error"}) =>
            /\ pc = "json" /\ pc' = "idle"
            /\ notes'[i].sync_status = "synced"
     /\ (pc = "idle" /\ pc' = "fetch") =>
          {sent'[k].id : k \in DOMAIN sent'} =
            {i \in DOMAIN notes : notes[i].sync_status \in {"pending", "error"}}]_vars

\* A note that an earlier cycle left in error is in the batch of the cycle
\* now in flight.
C14_ErrorNoteSentAgain ==
  /\ pc = "fetch"
  /\ \E k \in DOMAIN sent :
       /\ sent[k].id \in DOMAIN notes
       /\ notes[sent[k].id].sync_status = "error"

\* C15: getNotesToSync() returns exactly the notes whose sync_status is
\* 'pending' or 'error', each once and as stored, no synced note and none
\* left out, oldest created_at first.
C15_ToSyncExactAndOldestFirst ==
  /\ getNotesToSync(notes) # {}
  /\ \A q \in getNotesToSync(notes) :
       /\ \A k \in DOMAIN q :
            /\ q[k].id \in DOMAIN notes
            /\ q[k] = notes[q[k].id]
            /\ q[k].sync_status \in {"pending", "error"}
       /\ \A i \in DOMAIN notes :
            notes[i].sync_status \in {"pending", "error"} =>
              \E k \in DOMAIN q : q[k].id = i
       /\ \A j, k \in DOMAIN q :
            /\ j # k => q[j].id # q[k].id
            /\ j < k => q[j].created_at <= q[k].created_at

\* A cycle in flight collected two notes created at different times, one of
\* them in error, and sent the older one first.
C15_CollectedTwoOldestFirst ==
  /\ pc = "fetch"
  /\ Len(sent) = 2
  /\ sent[1].created_at < sent[2].created_at
  /\ \E i \in DOMAIN notes : i \in SentIds /\ notes[i].sync_status = "error"

\* C16: when getNotesToSync() is empty at the start of a cycle,
\* syncWithBackend returns success = true with synced = 0 at once: no
\* request is sent and no note is changed.
C16_NothingToSync ==
  [][(/\ \A i \in DOMAIN notes : notes[i].sync_status \notin {"pending", "error"}
      /\ syncCollect(FALSE)) =>
       /\ pc' = "idle"
       /\ sent' = << >>
       /\ notes' = notes
       /\ last' = Kept(NoNotesToSync)
       /\ last'.success
       /\ ~last'.raised
       /\ NoNotesToSync.synced = 0]_vars

\* A cycle has returned at once on a table whose notes are all synced.
C16_ReturnedNothingToSync ==
  /\ last.op = "syncWithBackend"
  /\ last.message = "No notes to sync"
  /\ pc = "idle"
  /\ DOMAIN notes # {}
  /\ \A i \in DOMAIN notes : notes[i].sync_status = "synced"

\* C17: a cycle with a non-empty pending set sends exactly one request. Its
\* notes list is what getNotesToSync() returned at collect, each note cut
\* down to id, title, content, created_at and updated_at: sync_status and
\* synced_at are no part of it. No later step of the cycle sends again.
C17_OneProjectedRequest ==
  [][/\ (/\ \E i \in DOMAIN notes : notes[i].sync_status \in {"pending", "error"}
         /\ syncCollect(FALSE)) =>
          /\ pc' = "fetch"
          /\ \E q \in getNotesToSync(notes) :
               /\ Len(sent') = Len(q)
               /\ \A k \in DOMAIN q :
                    sent'[k] = [id |-> q[k].id, title |-> q[k].title,
                                content |-> q[k].content,
                                created_at |-> q[k].created_at,
                                updated_at |-> q[k].updated_at]
     /\ (pc # "fetch" /\ pc' = "fetch") => pc = "idle"
     /\ pc # "idle" => (sent' = sent \/ (pc' = "idle" /\ sent' = << >>))]_vars

\* The cycle in flight sent a note that carries a synced_at from an earlier
\* cycle, and left out a note that is synced.
C17_SentWithoutBookkeeping ==
  /\ pc = "fetch"
  /\ \E k \in DOMAIN sent :
       /\ sent[k].id \in DOMAIN notes
       /\ notes[sent[k].id].synced_at # NoTime
  /\ \E i \in DOMAIN notes \ SentIds : notes[i].sync_status = "synced"

\* C18: markNotesAsSynced(ids) with a non-empty ids sets sync_status 'synced'
\* and a non-null synced_at on every existing note whose id is in ids, leaves
\* every other field and every other note unchanged, and returns the number
\* of existing notes whose id is in ids.
C18_MarkSynced ==
  [][\A q \in IdLists \ {<< >>} :
       callMarkNotesAsSynced(List(q)) =>
         /\ ~last'.raised
         /\ DOMAIN notes' = DOMAIN notes
         /\ \A i \in DOMAIN notes :
              IF \E k \in DOMAIN q : q[k] = i
                THEN /\ notes'[i].sync_status = "synced"
                     /\ notes'[i].synced_at # NoTime
                     /\ notes'[i] = [notes[i] EXCEPT !.sync_status = "synced",
                                                     !.synced_at = notes'[i].synced_at]
                ELSE notes'[i] = notes[i]
         /\ last'.changes =
              Cardinality({i \in DOMAIN notes : \E k \in DOMAIN q : q[k] = i})]_vars

\* A call has marked one note synced and returned 1 beside a note that is
\* still pending.
C18_MarkedOneOfTwo ==
  /\ last.op = "markNotesAsSynced"
  /\ last.changes = 1
  /\ \E i, j \in DOMAIN notes :
       /\ notes[i].sync_status = "synced" /\ notes[i].synced_at # NoTime
       /\ notes[j].sync_status = "pending" /\ notes[j].synced_at = NoTime

\* C19: markNotesSyncError(ids) with a non-empty ids sets sync_status 'error'
\* on every existing note whose id is in ids, leaves synced_at, every other
\* field and every other note unchanged, and returns the number of existing
\* notes whose id is in ids.
C19_MarkError ==
  [][\A q \in IdLists \ {<< >>} :
       callMarkNotesSyncError(List(q)) =>
         /\ ~last'.raised
         /\ DOMAIN notes' = DOMAIN notes
         /\ \A i \in DOMAIN notes :
              IF \E k \in DOMAIN q : q[k] = i
                THEN /\ notes'[i].sync_status = "error"
                     /\ notes'[i].synced_at = notes[i].synced_at
                     /\ notes'[i] = [notes[i] EXCEPT !.sync_status = "error"]
                ELSE notes'[i] = notes[i]
         /\ last'.changes =
              Cardinality({i \in DOMAIN notes : \E k \in DOMAIN q : q[k] = i})]_vars

\* A call has put a note that had been synced in error and returned 1; the
\* note keeps its synced_at.
C19_SyncedNoteInError ==
  /\ last.op = "markNotesSyncError"
  /\ last.changes = 1
  /\ \E i \in DOMAIN notes :
       notes[i].sync_status = "error" /\ notes[i].synced_at # NoTime

\* C20: markNotesAsSynced and markNotesSyncError called with an empty list
\* or with no list return 0, raise nothing, run no statement and leave every
\* note unchanged.
C20_EmptyListIsNoOp ==
  [][\A ids \in {NoList, List(<< >>)} :
       /\ callMarkNotesAsSynced(ids) =>
            /\ notes' = notes
            /\ last'.changes = 0
            /\ ~last'.raised
            /\ markNotesAsSynced(notes, ids, now).statements = 0
       /\ callMarkNotesSyncError(ids) =>
            /\ notes' = notes
            /\ last'.changes = 0
            /\ ~last'.raised
            /\ markNotesSyncError(notes, ids).statements = 0]_vars

\* A marking call has returned 0 on a table in which every id of the model
\* names a note: its list was empty or absent.
C20_ReturnedZeroOnFullTable ==
  /\ last.op \in {"markNotesAsSynced", "markNotesSyncError"}
  /\ last.changes = 0
  /\ ~last.raised
  /\ DOMAIN notes = Ids
  /\ \E i \in DOMAIN notes : notes[i].sync_status = "pending"

\* C21: deleteNote(id) returns true exactly when a note with that id existed,
\* removes that note and no other and changes no other note; a second
\* deleteNote(id) right after it returns false and changes nothing.
C21_DeleteOnce ==
  [][\A id \in Ids :
       deleteNote(id) =>
         /\ ~last'.raised
         /\ last'.success <=> id \in DOMAIN notes
         /\ DOMAIN notes' = DOMAIN notes \ {id}
         /\ \A i \in DOMAIN notes' : notes'[i] = notes[i]
         /\ LET again == RunDelete(notes', id)
            IN /\ ~(again.changes > 0)
               /\ again.notes = notes']_vars

\* A delete has returned false for an id whose note had been deleted, on a
\* table that still holds a note.
C21_DeletedTwice ==
  /\ last.op = "deleteNote"
  /\ ~last.success
  /\ DOMAIN notes # {}
  /\ \E id \in 1..seq : id \notin DOMAIN notes

\* C22: getNoteById and updateNote called with an id that matches no note
\* return null and raise nothing, whatever the title and content passed, and
\* updateNote then creates no row and changes none.
C22_MissingIdIsNull ==
  [][\A id \in Ids \ DOMAIN notes :
       /\ getNoteById(notes, id) = NoRow
       /\ \A a \in UpdateArgs :
            updateNote(id, a[1], a[2]) =>
              /\ ~last'.raised
              /\ ~last'.success
              /\ notes' = notes
              /\ getNoteById(notes', id) = NoRow]_vars

\* An update has returned null for an id that matches none of the notes in
\* the table.
C22_UpdatedMissing ==
  /\ last.op = "updateNote"
  /\ ~last.success
  /\ ~last.raised
  /\ DOMAIN notes # {}
  /\ DOMAIN notes # Ids

\* C23: ids are unique, immutable and increasing. Over every step of
\* addNote, addNotesBulk, updateNote, deleteNote and the sync cycle: a newly
\* assigned id is greater than every id assigned before it, the ids of
\* deleted notes included (seq is the largest id ever assigned and never
\* goes down); every note is stored under its own id; no step changes the
\* id of a note that stays.
C23_IdsIncrease ==
  [][/\ seq' >= seq
     /\ \A i \in DOMAIN notes : i <= seq
     /\ \A i \in DOMAIN notes' \ DOMAIN notes : i > seq /\ i <= seq'
     /\ \A i \in DOMAIN notes' : notes'[i].id = i
     /\ \A i \in DOMAIN notes \cap DOMAIN notes' : notes'[i].id = notes[i].id]_vars

\* A note has been added after the note with the largest id was deleted: the
\* table has a gap below the newest id.
C23_AddedAfterDelete ==
  /\ last.op \in {"addNote", "addNotesBulk"}
  /\ ~last.raised
  /\ seq \in DOMAIN notes
  /\ \E id \in 1..seq : id \notin DOMAIN notes

\* C24: in every state each note's sync_status is one of pending, synced,
\* error, and a synced note has a synced_at. A note is created with a null
\* synced_at, and a synced_at appears or changes only in the step of a cycle
\* that marks the note synced: a note never marked synced has none.
C24_StatusAndStamp ==
  [][/\ \A i \in DOMAIN notes' :
          /\ notes'[i].sync_status \in {"pending", "synced", "error"}
          /\ notes'[i].sync_status = "synced" => notes'[i].synced_at # NoTime
     /\ \A i \in DOMAIN notes' \ DOMAIN notes : notes'[i].synced_at = NoTime
     /\ \A i \in DOMAIN notes \cap DOMAIN notes' :
          notes'[i].synced_at # notes[i].synced_at =>
            /\ pc = "json" /\ pc' = "idle"
            /\ notes'[i].sync_status \in {"synced", "error"}
            /\ notes'[i].synced_at = now]_vars

\* A note is in error and has never been marked synced, beside a synced note.
C24_ErrorNeverSynced ==
  \E i, j \in DOMAIN notes :
    /\ notes[i].sync_status = "error" /\ notes[i].synced_at = NoTime
    /\ notes[j].sync_status = "synced" /\ notes[j].synced_at # NoTime

\* C25: getNotes(sortBy, order) returns every note exactly once, ordered by
\* sortBy when sortBy is one of id, title, created_at, updated_at and by
\* created_at for any other value; no value of sortBy makes it raise.
C25_SortedByAllowedColumn ==
  \A sortBy \in SortBys, order \in Orders :
    LET r == getNotes(notes, sortBy, order)
        col == IF sortBy \in {"id", "title", "created_at", "updated_at"}
                 THEN sortBy ELSE "created_at"
        Key(row) == CASE col = "id" -> row.id
                      [] col = "title" -> Collate(row.title)
                      [] col = "created_at" -> row.created_at
                      [] OTHER -> row.updated_at
    IN /\ r.raised <=> order = NullText
       /\ ~r.raised =>
            /\ r.rows # {}
            /\ \A q \in r.rows :
                 /\ Len(q) = Cardinality(DOMAIN notes)
                 /\ \A i \in DOMAIN notes : \E k \in DOMAIN q : q[k] = notes[i]
                 /\ \/ \A j, k \in DOMAIN q : j < k => Key(q[j]) <= Key(q[k])
                    \/ \A j, k \in DOMAIN q : j < k => Key(q[j]) >= Key(q[k])

\* getNotes has returned on a table of two notes that id and title put in
\* opposite orders, the older one updated since.
C25_ListedTwoNotes ==
  /\ last.op = "getNotes"
  /\ ~last.raised
  /\ DOMAIN notes = {1, 2}
  /\ notes[1].title = "b" /\ notes[2].title = "a"
  /\ notes[1].created_at < notes[2].created_at
  /\ notes[1].updated_at > notes[1].created_at

\* C26: getNotes normalizes order to ASC or DESC: ascending when the
\* argument is 'ASC' in any case, descending for anything else the caller
\* supplies; no order value makes the call fail.
C26_OrderNormalized ==
  /\ last.op = "getNotes" => ~last.raised
  /\ \A sortBy \in SortBys, order \in Orders :
       LET r == getNotes(notes, sortBy, order)
           col == IF sortBy \in allowedColumns THEN sortBy ELSE "created_at"
       IN ~r.raised =>
            \A q \in r.rows : \A j, k \in DOMAIN q :
              j < k =>
                IF order \in {"ASC", "asc"}
                  THEN SortKey(q[j], col) <= SortKey(q[k], col)
                  ELSE SortKey(q[j], col) >= SortKey(q[k], col)

\* query occurs in text as a substring, letters compared as the engine
\* compares them.
Contains(query, text) ==
  \E k \in 0..(Len(Chars(text)) - Len(Chars(query))) :
    \A j \in 1..Len(Chars(query)) :
      Fold(Chars(text)[k + j]) = Fold(Chars(query)[j])

\* The notes whose title or content contains query.
Containing(query) ==
  {i \in DOMAIN notes :
     \/ Contains(query, notes[i].title)
     \/ notes[i].content # NullText /\ Contains(query, notes[i].content)}

\* C27: searchNotes(query) returns exactly the notes whose title or content
\* contains query as a literal substring, for every query, those made of %
\* or _ included, newest created_at first.
C27_LiteralSubstring ==
  \A query \in Queries :
    \A q \in searchNotes(notes, query) :
      /\ {q[k].id : k \in DOMAIN q} = Containing(query)
      /\ Len(q) = Cardinality(Containing(query))
      /\ \A k \in DOMAIN q : q[k] = notes[q[k].id]
      /\ \A j, k \in DOMAIN q : j < k => q[j].created_at >= q[k].created_at

\* C28: searchNotes('') returns every note of the table, those with a NULL
\* content included, and searchNotes(q) returns the empty sequence for a q
\* that occurs in no title and no content.
C28_EmptyAndNoMatch ==
  /\ \A q \in searchNotes(notes, "") :
       /\ Len(q) = Cardinality(DOMAIN notes)
       /\ \A i \in DOMAIN notes : \E k \in DOMAIN q : q[k] = notes[i]
  /\ \A query \in Queries :
       Containing(query) = {} => searchNotes(notes, query) = {<< >>}

\* C29: the database connection is closed exactly once at process shutdown
\* on every exit path, the Squirrel-startup quit, a process without the app
\* object and an abnormal shutdown included, and no sequence of lifecycle
\* events, repeated before-quit included, closes it more than once.
C29_ClosedExactlyOnce ==
  /\ conn.closes <= 1
  /\ conn.phase = "exited" => (~conn.open /\ conn.closes = 1)

\* C30: every IPC handler settles with a structured result that has a
\* boolean success and never rejects: a call that raised (a refused null
\* title, a null order, a closed connection) and a sync cycle ended by a
\* storage fault give success = false with the message of what was thrown,
\* and getNoteById, updateNote and deleteNote called with an id that matches
\* no note give success = false and 'Note not found'.
C30_StructuredResult ==
  [][LET r == handle(last')
     IN /\ (last'.op \in Channels /\ last'.message # "in flight") =>
             /\ ~r.rejected
             /\ r.success \in BOOLEAN
             /\ last'.raised =>
                  /\ ~r.success
                  /\ r.error \in {NotNullMessage, NullOrderMessage, NotOpenMessage}
             /\ (\E op \in Channels : callOnClosed(op)) =>
                  (~r.success /\ r.error = NotOpenMessage)
             /\ last'.cause = "storage" =>
                  (~r.success /\ r.error = StorageFaultMessage)
        /\ \A id \in Ids \ DOMAIN notes :
             (\/ callGetNoteById(id)
              \/ deleteNote(id)
              \/ \E a \in UpdateArgs : updateNote(id, a[1], a[2])) =>
               /\ ~r.rejected
               /\ ~r.success
               /\ (r.error = NoteNotFound \/ r.message = "Note not found")]_vars

\* A handler has answered a call that raised, and the table holds a note
\* while another id matches none.
C30_AnsweredRaisedCall ==
  /\ last.op \in Channels
  /\ last.raised
  /\ ~handle(last).success
  /\ DOMAIN notes # {}
  /\ DOMAIN notes # Ids

\* C31: a sync cycle changes the sync_status only of notes of the batch it
\* sent: whatever ids the remote lists in syncedIds or failedIds, the
\* reconcile step leaves the status of every note that was not sent (synced
\* already, or created after collect) as it was.
C31_OnlyBatchChanges ==
  [][(pc = "json" /\ pc' = "idle") =>
       \A i \in DOMAIN notes \ SentIds :
         /\ i \in DOMAIN notes'
         /\ notes'[i].sync_status = notes[i].sync_status]_vars

\* C32: a note of the batch that a 2xx answer lists in neither syncedIds nor
\* failedIds, a missing list included, leaves the reconcile step with the
\* sync_status and synced_at it had, and the cycle reports success = true
\* with synced and failed equal to the lengths of the lists received, 0 for
\* a list that is missing. The answers are the bodies that are objects, and
\* no statement raises.
C32_UnlistedKeepsStatus ==
  pc = "json" =>
    \A result \in {res \in Results : ~res.isNull} :
      LET r == Reconcile(notes, result, "none", now)
          listed == SeqRange(result.syncedIds) \cup SeqRange(result.failedIds)
      IN /\ \A i \in (SentIds \cap DOMAIN notes) \ listed :
              /\ r.notes[i].sync_status = notes[i].sync_status
              /\ r.notes[i].synced_at = notes[i].synced_at
         /\ r.outcome.success
         /\ ~r.outcome.raised
         /\ r.outcome.synced = Len(result.syncedIds)
         /\ r.outcome.failed = Len(result.failedIds)
         /\ ~result.hasSynced => r.outcome.synced = 0
         /\ ~result.hasFailed => r.outcome.failed = 0

\* A cycle that sent two notes has returned success and left one of them to
\* sync: the note is pending or in error as before, the other is synced.
C32_LeftUnlisted ==
  /\ last.op = "syncWithBackend"
  /\ last.message = "Synced"
  /\ last.success
  /\ \E i, j \in DOMAIN notes :
       /\ notes[i].sync_status \in {"pending", "error"}
       /\ notes[i].synced_at = NoTime
       /\ notes[j].sync_status = "synced"

\* C33: when an id is in both syncedIds and failedIds of an answer, its note
\* leaves the reconcile step with sync_status 'error', markNotesSyncError
\* running after markNotesAsSynced, and with the synced_at that the synced
\* marking has set, the time of the step.
C33_ListedTwiceEndsError ==
  pc = "json" =>
    \A result \in {res \in Results : ~res.isNull} :
      LET r == Reconcile(notes, result, "none", now)
      IN \A i \in DOMAIN notes \cap SeqRange(result.syncedIds)
                               \cap SeqRange(result.failedIds) :
           /\ r.outcome.success
           /\ r.notes[i].sync_status = "error"
           /\ r.notes[i].synced_at = now
           /\ r.notes[i].synced_at # NoTime

\* A cycle has returned success and left a note in error that carries the
\* synced_at of the very step, later than the note's last update.
C33_ErrorWithFreshStamp ==
  /\ last.op = "syncWithBackend"
  /\ last.message = "Synced"
  /\ pc = "idle"
  /\ \E i \in DOMAIN notes :
       /\ notes[i].sync_status = "error"
       /\ notes[i].synced_at = now
       /\ notes[i].synced_at > notes[i].updated_at

\* C34: the synced and failed counts a successful cycle returns are the
\* numbers of local notes the cycle has marked 'synced' and 'error', for
\* every answer, ids that match no note any more and ids listed twice
\* included.
C34_CountsAreMarkedNotes ==
  pc = "json" =>
    \A result \in {res \in Results : ~res.isNull} :
      LET r == Reconcile(notes, result, "none", now)
      IN r.outcome.success =>
           /\ r.outcome.synced = Cardinality(Matched(notes, List(result.syncedIds)))
           /\ r.outcome.failed = Cardinality(Matched(notes, List(result.failedIds)))

\* C35: a sync cycle never creates or removes a note. No step of a cycle
\* changes the set of ids in the table, whatever the remote lists; a note
\* that deleteNote removed while the request was in flight is not brought
\* back by the reconcile step, though its id was sent and may be listed; and
\* no id that was ever deleted is in the table again after any step.
C35_CycleKeepsIdSet ==
  [][/\ CycleStep => DOMAIN notes' = DOMAIN notes
     /\ (pc = "json" /\ pc' = "idle") =>
          \A i \in SentIds \ DOMAIN notes : i \notin DOMAIN notes'
     /\ \A i \in 1..seq : i \notin DOMAIN notes => i \notin DOMAIN notes']_vars

\* A cycle awaits the body of the answer to a batch of two notes, one of
\* which deleteNote has removed since the request was sent.
C35_DeletedInFlight ==
  /\ pc = "json"
  /\ Len(sent) = 2
  /\ \E i \in SentIds : i \notin DOMAIN notes
  /\ \E j \in SentIds : j \in DOMAIN notes

\* C36: when the remote answers 2xx accepting every id sent and rejecting
\* none of them, and no note was added or updated since collect (every note
\* to sync is in the batch, as it was sent), then after the reconcile step
\* getNotesToSync() is empty, so that the next cycle finds nothing to sync.
C36_AcceptedLeavesNothing ==
  pc = "json" =>
    \A result \in {res \in Results : ~res.isNull} :
      (/\ SentIds \subseteq SeqRange(result.syncedIds)
       /\ SentIds \cap SeqRange(result.failedIds) = {}
       /\ ToSyncIds(notes) \subseteq SentIds
       /\ \A k \in DOMAIN sent :
            sent[k].id \in DOMAIN notes => Project(notes[sent[k].id]) = sent[k]) =>
        LET r == Reconcile(notes, result, "none", now)
        IN /\ r.outcome.success
           /\ ToSyncIds(r.notes) = {}
           /\ getNotesToSync(r.notes) = {<< >>}

\* C37: getStats returns total = the number of notes, pending = the number
\* of notes with sync_status 'pending' and synced = the number with
\* 'synced', and nothing else; in every reachable state
\* total - pending - synced is the number of notes with sync_status 'error',
\* which the result does not report.
C37_StatsLeaveErrorOut ==
  LET stats == getStats(notes)
      with(status) == {i \in DOMAIN notes : notes[i].sync_status = status}
  IN /\ DOMAIN stats = {"total", "pending", "synced"}
     /\ stats.total = Cardinality(DOMAIN notes)
     /\ stats.pending = Cardinality(with("pending"))
     /\ stats.synced = Cardinality(with("synced"))
     /\ stats.total - stats.pending - stats.synced = Cardinality(with("error"))
     /\ stats.total - stats.pending - stats.synced >= 0

\* getStats has been called on a table that holds a note in error beside a
\* note that is synced.
C37_StatsWithErrorNote ==
  /\ last.op = "getStats"
  /\ ~last.raised
  /\ \E i, j \in DOMAIN notes :
       /\ notes[i].sync_status = "error"
       /\ notes[j].sync_status = "synced"
  /\ getStats(notes).total - getStats(notes).pending - getStats(notes).synced = 1
====
